---- MODULE Spec2Model ----
(***************************************************************************)
(* Smart Library System backend: the account routes (userRoutes.js) and    *)
(* the catalog routes (bookRoutes.js) over a MongoDB store reached through *)
(* Mongoose.  Every request handler is split at the awaits that reach the  *)
(* store, so that requests of different clients interleave as they do on   *)
(* the Node event loop.                                                    *)
(***************************************************************************)
EXTENDS Integers, Sequences, FiniteSets, TLC

VARIABLES users, books, nextId, clock, pc, doc, out, registered, added

vars == <<users, books, nextId, clock, pc, doc, out, registered, added>>

-----------------------------------------------------------------------------
(* Bounds of the model *)

NumClients == 2
MaxIds == 2
MaxClock == 1
NumSalts == 1

Clients == 1..NumClients
Salts == 1..NumSalts

-----------------------------------------------------------------------------
(* Request values.  A JSON string is a sequence of characters where the   *)
(* code looks inside it (email, password) and a TLA+ string elsewhere.    *)
(* An optional body field is <<>> when the key is absent and <<v>> when   *)
(* it carries v.                                                          *)

Absent == <<>>
Some(v) == <<v>>
Val(o) == o[1]

\* JavaScript !x for a body field whose falsy value of its type is zero
Falsy(o, zero) == o = Absent \/ Val(o) = zero

EmailAnn == <<"a", "@", "x", ".", "c">>
EmailBob == <<"b", "@", "x", ".", "c">>
EmailNoTld == <<"a", "@", "x">>
EmailSpace == <<"a", " ", "@", "x", ".", "c">>
EmailTwoAt == <<"a", "@", "@", "x", ".", "c">>
EmailNoLocal == <<"@", "x", ".", "c">>
EmailEmpty == <<>>

GoodEmails == {EmailAnn, EmailBob}
BadEmails == {EmailNoTld, EmailSpace, EmailTwoAt, EmailNoLocal}

PwSecret1 == <<"s", "e", "c", "r", "e", "t", "1">>
PwSecret == <<"s", "e", "c", "r", "e", "t">>
PwShort == <<"s", "e", "c", "r", "e">>
PwEmpty == <<>>

GoodPasswords == {PwSecret1, PwSecret}

RegBody(name, email, password) ==
  [name |-> Some(name), email |-> Some(email), password |-> Some(password)]

\* bodies that pass validation, and one body per defect of one field
RegisterBodies ==
  {RegBody("Ann", EmailAnn, PwSecret1), RegBody("Bob", EmailAnn, PwSecret),
   RegBody("Bob", EmailBob, PwSecret1)}
  \cup {[RegBody("Ann", EmailAnn, PwSecret1) EXCEPT !.name = n] : n \in {Absent, Some("")}}
  \cup {[RegBody("Ann", EmailAnn, PwSecret1) EXCEPT !.email = e] :
          e \in {Some(EmailEmpty)} \cup {Some(x) : x \in BadEmails}}
  \cup {[RegBody("Bob", EmailAnn, PwSecret) EXCEPT !.password = q] :
          q \in {Absent, Some(PwShort)}}

LoginBodies ==
  [email : {Absent, Some(EmailAnn), Some(EmailBob)},
   password : {Some(PwEmpty), Some(PwSecret1), Some(PwSecret)}]

UpdateBodies ==
  [name : {Some(""), Some("Bob")},
   email : {Absent, Some(EmailAnn), Some(EmailBob), Some(EmailNoTld)}]

\* req.params.id: a well-formed ObjectId is a positive number here, 0 is a
\* string that does not cast to an ObjectId
IdParams == 0..MaxIds
IsObjectId(p) == p >= 1

-----------------------------------------------------------------------------
(* Pure helpers of the account routes *)

Whitespace == {" ", "\t", "\n"}

\* /^[^\s@]+@[^\s@]+\.[^\s@]+$/.test(s)
EmailRegexTest(s) ==
  \E i \in 1..Len(s) : \E j \in 1..Len(s) :
    /\ s[i] = "@"
    /\ s[j] = "."
    /\ 1 < i
    /\ i + 1 < j
    /\ j < Len(s)
    /\ \A k \in 1..Len(s) : k # i => (s[k] \notin Whitespace /\ s[k] # "@")

MinPasswordLength == 6
SaltRounds == 10
TokenLifetime == 3600

\* bcrypt.hash(password, salt): a one-way salted digest, kept symbolic
BcryptHash(password, salt) ==
  [alg |-> "bcrypt", cost |-> SaltRounds, salt |-> salt, digest |-> <<"H", salt, password>>]

\* bcrypt.compare(password, hash): rehash with the salt the hash carries
BcryptCompare(password, hash) == BcryptHash(password, hash.salt) = hash

\* process.env.JWT_SECRET is loaded by dotenv at startup
JwtSecretConfigured == TRUE

\* the token signed with expiresIn: '1m'
JwtSignOneMinute(id, now) == [sub |-> id, iat |-> now, exp |-> now + 60]

\* jwt.sign({ user: { id } }, secret, { expiresIn: '1h' }) at time now
JwtSign(id, now) == [sub |-> id, iat |-> now, exp |-> now + TokenLifetime]

UserSummary(u) == [id |-> u.id, name |-> u.name, email |-> u.email]

-----------------------------------------------------------------------------
(* Responses: res.status(s).json({msg, ...}); out is the response the last *)
(* handler step sent, NoResp when it sent none.  via is "check" when the   *)
(* handler answered before writing and "store" when it answered after its  *)
(* write was attempted.                                                    *)

NoBody == [kind |-> "none"]
NoKey == [email |-> <<>>, isbn |-> "", id |-> -1]
NoResp ==
  [op |-> "none", status |-> 0, msg |-> "", via |-> "none", body |-> NoBody, key |-> NoKey]
Reply(op, status, msg, via, body) ==
  [op |-> op, status |-> status, msg |-> msg, via |-> via, body |-> body, key |-> NoKey]

\* the response r, tagged with the email, ISBN or id of the request it answers
Keyed(r, k) == [r EXCEPT !.key = k]
EmailKey(e) == [NoKey EXCEPT !.email = e]
IsbnKey(i) == [NoKey EXCEPT !.isbn = i]
IdKey(n) == [NoKey EXCEPT !.id = n]

NoDoc == [kind |-> "none"]

MsgRegMissing == "Please provide name, email, and password"
MsgBadEmail == "Please provide a valid email address"
MsgShortPw == "Password must be at least 6 characters long"
MsgEmailExists == "An account with this email already exists"
MsgRegInvalid == "Invalid user data provided. Please check all fields."
MsgRegFailed == "Failed to create account. Please try again later."
MsgRegOk == "Account created successfully"
MsgLoginMissing == "Please provide email and password"
MsgBadCreds == "Invalid email or password"
MsgTokenFailed == "Failed to generate authentication token"
MsgUserNotFound == "User not found"
MsgEmailInUse == "This email is already in use by another account"
MsgUpdOk == "Profile updated successfully"
MsgBadUserId == "Invalid user ID provided"
MsgUpdFailed == "Failed to update profile. Please try again later."
MsgUserGone == "User not found. Account may have already been deleted."
MsgUserDeleted == "Account deleted successfully"

-----------------------------------------------------------------------------
(* The users collection (models/User.js): documents {_id, name, email,     *)
(* password} with a unique index on email.                                 *)

UserById(id) == {u \in users : u.id = id}
UserByEmail(email) == {u \in users : u.email = email}

\* the write when the schema declares no unique index on email
UserDuplicateKeyNoIndex(id, email) == FALSE

\* E11000: the write would give two documents the same email
UserDuplicateKey(id, email) == \E u \in users : u.id # id /\ u.email = email

\* user.save() of a new document: the insert's outcome
UserInsertError(rec) ==
  IF UserDuplicateKey(rec.id, rec.email) THEN "E11000" ELSE "ok"

\* user.save() of a loaded document: updateOne({_id}, {$set: modified paths})
UserUpdateError(id, old, newName, newEmail) ==
  IF UserById(id) = {} THEN "DocumentNotFoundError"
  ELSE IF newEmail # old.email /\ UserDuplicateKey(id, newEmail) THEN "E11000"
  ELSE "ok"

UserUpdate(id, old, newName, newEmail) ==
  {IF u.id = id
     THEN [u EXCEPT !.name = IF newName # old.name THEN newName ELSE @,
                    !.email = IF newEmail # old.email THEN newEmail ELSE @]
     ELSE u : u \in users}

-----------------------------------------------------------------------------
(* A handler's last step: the response is sent and its locals are gone *)

Finish(c, r) ==
  /\ pc' = [pc EXCEPT ![c] = "idle"]
  /\ doc' = [doc EXCEPT ![c] = NoDoc]
  /\ out' = r

\* A handler suspends at an await with its locals in d: nothing is sent
Await(c, label, d) ==
  /\ pc' = [pc EXCEPT ![c] = label]
  /\ doc' = [doc EXCEPT ![c] = d]
  /\ out' = NoResp

-----------------------------------------------------------------------------
(* POST /api/users/register *)

\* the length check off by one
PasswordTooShortOffByOne(password) == Len(password) < MinPasswordLength - 1

PasswordTooShort(password) == Len(password) < MinPasswordLength

\* the validation of the body, in the order of the code; "ok" when it passes
RegisterValidate(body) ==
  IF Falsy(body.name, "") \/ Falsy(body.email, EmailEmpty) \/ Falsy(body.password, PwEmpty)
    THEN MsgRegMissing
  ELSE IF ~EmailRegexTest(Val(body.email)) THEN MsgBadEmail
  ELSE IF PasswordTooShort(Val(body.password)) THEN MsgShortPw
  ELSE "ok"

\* the catch block without the branch for duplicate key errors
RegisterCatchNoDuplicate(err) ==
  IF err = "ValidationError" THEN Reply("register", 400, MsgRegInvalid, "store", NoBody)
  ELSE Reply("register", 500, MsgRegFailed, "store", NoBody)

\* the catch block of the register handler
RegisterCatch(err) ==
  IF err = "ValidationError" THEN Reply("register", 400, MsgRegInvalid, "store", NoBody)
  ELSE IF err = "E11000" THEN Reply("register", 400, MsgEmailExists, "store", NoBody)
  ELSE Reply("register", 500, MsgRegFailed, "store", NoBody)

\* validation, findOne({email}), new User(...), genSalt and hash
RegisterCheck(c, body) ==
  /\ pc[c] = "idle"
  /\ UNCHANGED <<users, books, clock, registered, added>>
  /\ IF RegisterValidate(body) # "ok"
       THEN /\ Finish(c, Reply("register", 400, RegisterValidate(body), "check", NoBody))
            /\ UNCHANGED nextId
     ELSE IF UserByEmail(Val(body.email)) # {}
       THEN /\ Finish(c, Keyed(Reply("register", 400, MsgEmailExists, "check", NoBody),
                                  EmailKey(Val(body.email))))
            /\ UNCHANGED nextId
     ELSE /\ nextId <= MaxIds
          /\ \E salt \in Salts :
               Await(c, "reg_save",
                     [kind |-> "newUser",
                      rec |-> [id |-> nextId, name |-> Val(body.name),
                               email |-> Val(body.email),
                               password |-> BcryptHash(Val(body.password), salt)],
                      plain |-> Val(body.password)])
          /\ nextId' = nextId + 1

\* await user.save() and the 201 response, or the catch block
RegisterSave(c) ==
  /\ pc[c] = "reg_save"
  /\ UNCHANGED <<books, nextId, clock, added>>
  /\ LET rec == doc[c].rec
         err == UserInsertError(rec)
     IN IF err = "ok"
          THEN /\ users' = users \cup {rec}
               /\ registered' = registered \cup {[id |-> rec.id, email |-> rec.email, password |-> doc[c].plain]}
               /\ Finish(c, Keyed(Reply("register", 201, MsgRegOk, "store",
                                        [kind |-> "user", user |-> UserSummary(rec)]),
                                  EmailKey(rec.email)))
          ELSE /\ UNCHANGED <<users, registered>>
               /\ Finish(c, Keyed(RegisterCatch(err), EmailKey(rec.email)))

-----------------------------------------------------------------------------
(* POST /api/users/login *)

\* the login that tells an unknown email from a wrong password
LoginReplyTelling(body) ==
  IF Falsy(body.email, EmailEmpty) \/ Falsy(body.password, PwEmpty)
    THEN Reply("login", 400, MsgLoginMissing, "check", NoBody)
  ELSE IF UserByEmail(Val(body.email)) = {}
    THEN Reply("login", 400, MsgUserNotFound, "check", NoBody)
  ELSE LET user == CHOOSE u \in UserByEmail(Val(body.email)) : TRUE
       IN IF ~BcryptCompare(Val(body.password), user.password)
            THEN Reply("login", 400, MsgBadCreds, "check", NoBody)
          ELSE Reply("login", 200, "", "check",
                     [kind |-> "login", token |-> JwtSign(user.id, clock),
                      user |-> UserSummary(user)])

\* findOne({email}), bcrypt.compare, jwt.sign and the response
LoginReply(body) ==
  IF Falsy(body.email, EmailEmpty) \/ Falsy(body.password, PwEmpty)
    THEN Reply("login", 400, MsgLoginMissing, "check", NoBody)
  ELSE IF UserByEmail(Val(body.email)) = {}
    THEN Reply("login", 400, MsgBadCreds, "check", NoBody)
  ELSE LET user == CHOOSE u \in UserByEmail(Val(body.email)) : TRUE
       IN IF ~BcryptCompare(Val(body.password), user.password)
            THEN Reply("login", 400, MsgBadCreds, "check", NoBody)
          ELSE IF ~JwtSecretConfigured
            THEN Reply("login", 500, MsgTokenFailed, "check", NoBody)
          ELSE Reply("login", 200, "", "check",
                     [kind |-> "login", token |-> JwtSign(user.id, clock),
                      user |-> UserSummary(user)])

Login(c, body) ==
  /\ pc[c] = "idle"
  /\ UNCHANGED <<users, books, nextId, clock, registered, added>>
  /\ Finish(c, Keyed(LoginReply(body),
                     IF body.email = Absent THEN NoKey ELSE EmailKey(Val(body.email))))

-----------------------------------------------------------------------------
(* GET /api/users *)

\* User.find() with no projection: the documents as they are stored
SelectWholeDocument(u) == u

\* .select('-password'): the document without its password field
SelectWithoutPassword(u) == [f \in DOMAIN u \ {"password"} |-> u[f]]

\* User.find().select('-password') and res.json(users)
ListUsers(c) ==
  /\ pc[c] = "idle"
  /\ UNCHANGED <<users, books, nextId, clock, registered, added>>
  /\ Finish(c, Reply("listUsers", 200, "", "check",
                     [kind |-> "users", users |-> {SelectWithoutPassword(u) : u \in users}]))

-----------------------------------------------------------------------------
(* PUT /api/users/:id *)

\* the catch block of the update handler
UpdateCatch(err) ==
  IF err = "CastError" THEN Reply("update", 404, MsgBadUserId, "store", NoBody)
  ELSE IF err = "ValidationError" THEN Reply("update", 400, "Invalid user data provided", "store", NoBody)
  ELSE Reply("update", 500, MsgUpdFailed, "store", NoBody)

\* a body field as the handler uses it: x || y takes y for every falsy x
Given(o, zero) == IF Falsy(o, zero) THEN Absent ELSE o

\* findById and, when an email is given, the format check
UpdateFind(c, id, body) ==
  /\ pc[c] = "idle"
  /\ UNCHANGED <<users, books, nextId, clock, registered, added>>
  /\ IF ~IsObjectId(id)
       THEN Finish(c, [UpdateCatch("CastError") EXCEPT !.via = "check"])
     ELSE IF UserById(id) = {}
       THEN Finish(c, Reply("update", 404, MsgUserNotFound, "check", NoBody))
     ELSE LET user == CHOOSE u \in UserById(id) : TRUE
              d == [kind |-> "update", id |-> id,
                    loaded |-> [name |-> user.name, email |-> user.email],
                    name |-> Given(body.name, ""),
                    email |-> Given(body.email, EmailEmpty)]
          IN IF Falsy(body.email, EmailEmpty)
               THEN Await(c, "upd_save", d)
             ELSE IF ~EmailRegexTest(Val(body.email))
               THEN Finish(c, Reply("update", 400, MsgBadEmail, "check", NoBody))
             ELSE Await(c, "upd_check", d)

\* findOne({ email, _id: { $ne: id } })
UpdateCheck(c) ==
  /\ pc[c] = "upd_check"
  /\ UNCHANGED <<users, books, nextId, clock, registered, added>>
  /\ IF {u \in UserByEmail(Val(doc[c].email)) : u.id # doc[c].id} # {}
       THEN Finish(c, Keyed(Reply("update", 400, MsgEmailInUse, "check", NoBody),
                            EmailKey(Val(doc[c].email))))
       ELSE Await(c, "upd_save", doc[c])

\* user.name = name || user.name; user.email = email || user.email; save
UpdateSave(c) ==
  /\ pc[c] = "upd_save"
  /\ UNCHANGED <<books, nextId, clock, registered, added>>
  /\ LET d == doc[c]
         old == d.loaded
         newName == IF d.name = Absent THEN old.name ELSE Val(d.name)
         newEmail == IF d.email = Absent THEN old.email ELSE Val(d.email)
         err == UserUpdateError(d.id, old, newName, newEmail)
     IN IF err = "ok"
          THEN /\ users' = UserUpdate(d.id, old, newName, newEmail)
               /\ Finish(c, Keyed(Reply("update", 200, MsgUpdOk, "store",
                                        [kind |-> "user",
                                         user |-> [id |-> d.id, name |-> newName,
                                                   email |-> newEmail]]),
                                  EmailKey(newEmail)))
          ELSE /\ UNCHANGED users
               /\ Finish(c, Keyed(UpdateCatch(err), EmailKey(newEmail)))

-----------------------------------------------------------------------------
(* DELETE /api/users/:id *)

\* the catch block of the delete handler
DeleteUserCatch(err) ==
  IF err = "CastError" THEN Reply("deleteUser", 404, MsgBadUserId, "check", NoBody)
  ELSE Reply("deleteUser", 500, "Failed to delete account. Please try again later.", "check", NoBody)

\* findById
DeleteUserFind(c, id) ==
  /\ pc[c] = "idle"
  /\ UNCHANGED <<users, books, nextId, clock, registered, added>>
  /\ IF ~IsObjectId(id)
       THEN Finish(c, Keyed(DeleteUserCatch("CastError"), IdKey(id)))
     ELSE IF UserById(id) = {}
       THEN Finish(c, Keyed(Reply("deleteUser", 404, MsgUserGone, "check", NoBody), IdKey(id)))
     ELSE Await(c, "del_user", [kind |-> "delete", id |-> id])

\* findByIdAndDelete and the 200 response
DeleteUserRemove(c) ==
  /\ pc[c] = "del_user"
  /\ UNCHANGED <<books, nextId, clock, added>>
  /\ users' = users \ UserById(doc[c].id)
  /\ registered' = {r \in registered : r.id # doc[c].id}
  /\ Finish(c, Keyed(Reply("deleteUser", 200, MsgUserDeleted, "store", NoBody), IdKey(doc[c].id)))

-----------------------------------------------------------------------------
(* The books collection (models/Book.js): documents {_id, title, author,   *)
(* isbn, publicationYear, createdAt} with a unique index on isbn.          *)

Isbns == {"9780441013593", "9780000000001"}

BookBody(title, author, isbn, year) ==
  [title |-> Some(title), author |-> Some(author), isbn |-> Some(isbn),
   publicationYear |-> Some(year)]

BookDune == BookBody("Dune", "Herbert", "9780441013593", 1965)

\* bodies with the four fields truthy, one with the year 0, and one body per
\* absent or empty field
BookBodies ==
  {BookDune, BookBody("Dune2", "Frank", "9780441013593", 1966),
   BookBody("Emma", "Austen", "9780000000001", 1815),
   BookBody("Annals", "Tacitus", "9780000000001", 0)}
  \cup {[BookDune EXCEPT !.title = t] : t \in {Absent, Some("")}}
  \cup {[BookDune EXCEPT !.author = a] : a \in {Absent, Some("")}}
  \cup {[BookDune EXCEPT !.isbn = i] : i \in {Absent, Some("")}}
  \cup {[BookDune EXCEPT !.publicationYear = Absent]}

MsgBookMissing == "Please provide all required fields: title, author, ISBN, and publication year"
MsgIsbnExists == "A book with this ISBN already exists in the library"
MsgBookInvalid == "Invalid book data provided. Please check all fields."
MsgBookFailed == "Failed to add book. Please try again later."
MsgBookOk == "Book added successfully"
MsgBookGone == "Book not found. It may have already been deleted."
MsgBookDeleted == "Book deleted successfully"
MsgBadBookId == "Invalid book ID provided"

BookById(id) == {b \in books : b.id = id}
BookByIsbn(isbn) == {b \in books : b.isbn = isbn}

\* isbn: { type: String, required: true, unique: true }
BookDuplicateKey(rec) == \E b \in books : b.id # rec.id /\ b.isbn = rec.isbn

\* the insert when the schema declares no unique index on isbn
BookInsertErrorNoIndex(rec) == "ok"

\* book.save() of a new document: the insert's outcome
BookInsertError(rec) ==
  IF BookDuplicateKey(rec) THEN "E11000" ELSE "ok"

-----------------------------------------------------------------------------
(* POST /api/books *)

\* if (!title || !author || !isbn || !publicationYear)
AddBookMissing(body) ==
  \/ Falsy(body.title, "")
  \/ Falsy(body.author, "")
  \/ Falsy(body.isbn, "")
  \/ Falsy(body.publicationYear, 0)

\* the catch block of the add handler
AddBookCatch(err) ==
  IF err = "ValidationError" THEN Reply("addBook", 400, MsgBookInvalid, "store", NoBody)
  ELSE IF err = "E11000" THEN Reply("addBook", 400, MsgIsbnExists, "store", NoBody)
  ELSE Reply("addBook", 500, MsgBookFailed, "store", NoBody)

\* the required-field check, findOne({isbn}) and new Book(...)
AddBookCheck(c, body) ==
  /\ pc[c] = "idle"
  /\ UNCHANGED <<users, books, clock, registered, added>>
  /\ IF AddBookMissing(body)
       THEN /\ Finish(c, Keyed(Reply("addBook", 400, MsgBookMissing, "check", NoBody),
                                  IF body.isbn = Absent THEN NoKey ELSE IsbnKey(Val(body.isbn))))
            /\ UNCHANGED nextId
     ELSE IF BookByIsbn(Val(body.isbn)) # {}
       THEN /\ Finish(c, Keyed(Reply("addBook", 400, MsgIsbnExists, "check", NoBody),
                                  IsbnKey(Val(body.isbn))))
            /\ UNCHANGED nextId
     ELSE /\ nextId <= MaxIds
          /\ Await(c, "add_save",
                   [kind |-> "newBook",
                    rec |-> [id |-> nextId, title |-> Val(body.title),
                             author |-> Val(body.author), isbn |-> Val(body.isbn),
                             publicationYear |-> Val(body.publicationYear)]])
          /\ nextId' = nextId + 1

\* the document as saved: the timestamps option stamps createdAt at save
Stamped(rec) ==
  [id |-> rec.id, title |-> rec.title, author |-> rec.author, isbn |-> rec.isbn,
   publicationYear |-> rec.publicationYear, createdAt |-> clock]

\* await book.save() and the 201 response, or the catch block
AddBookSave(c) ==
  /\ pc[c] = "add_save"
  /\ UNCHANGED <<users, nextId, clock, registered>>
  /\ LET rec == Stamped(doc[c].rec)
         err == BookInsertError(rec)
     IN IF err = "ok"
          THEN /\ books' = books \cup {rec}
               /\ added' = Append(added, [id |-> rec.id, isbn |-> rec.isbn])
               /\ Finish(c, Keyed(Reply("addBook", 201, MsgBookOk, "store",
                                        [kind |-> "book", book |-> rec]),
                                  IsbnKey(rec.isbn)))
          ELSE /\ UNCHANGED <<books, added>>
               /\ Finish(c, Keyed(AddBookCatch(err), IsbnKey(rec.isbn)))

-----------------------------------------------------------------------------
(* GET /api/books *)

\* the orders sort({ createdAt: 1 }) would return
SortedByCreatedAtAsc(bs) ==
  {s \in [1..Cardinality(bs) -> bs] :
     /\ \A i, j \in 1..Cardinality(bs) : i # j => s[i] # s[j]
     /\ \A i, j \in 1..Cardinality(bs) : i < j => s[i].createdAt <= s[j].createdAt}

\* the orders sort({ createdAt: -1 }) may return the documents of bs in:
\* documents with equal createdAt come in any order
SortedByCreatedAtDesc(bs) ==
  {s \in [1..Cardinality(bs) -> bs] :
     /\ \A i, j \in 1..Cardinality(bs) : i # j => s[i] # s[j]
     /\ \A i, j \in 1..Cardinality(bs) : i < j => s[i].createdAt >= s[j].createdAt}

ListBooks(c) ==
  /\ pc[c] = "idle"
  /\ UNCHANGED <<users, books, nextId, clock, registered, added>>
  /\ \E s \in SortedByCreatedAtDesc(books) :
       Finish(c, Reply("listBooks", 200, "", "check", [kind |-> "books", books |-> s]))

-----------------------------------------------------------------------------
(* DELETE /api/books/:id *)

\* the catch block of the delete handler
DeleteBookCatch(err) ==
  IF err = "CastError" THEN Reply("deleteBook", 404, MsgBadBookId, "check", NoBody)
  ELSE Reply("deleteBook", 500, "Failed to delete book. Please try again later.", "check", NoBody)

\* findById
DeleteBookFind(c, id) ==
  /\ pc[c] = "idle"
  /\ UNCHANGED <<users, books, nextId, clock, registered, added>>
  /\ IF ~IsObjectId(id)
       THEN Finish(c, Keyed(DeleteBookCatch("CastError"), IdKey(id)))
     ELSE IF BookById(id) = {}
       THEN Finish(c, Keyed(Reply("deleteBook", 404, MsgBookGone, "check", NoBody), IdKey(id)))
     ELSE Await(c, "del_book", [kind |-> "delete", id |-> id])

\* deleteMany({}) in place of findByIdAndDelete
DeleteBookRemoveAll(c) ==
  /\ pc[c] = "del_book"
  /\ UNCHANGED <<users, nextId, clock, registered, added>>
  /\ books' = {}
  /\ Finish(c, Keyed(Reply("deleteBook", 200, MsgBookDeleted, "store", NoBody), IdKey(doc[c].id)))

\* findByIdAndDelete and the 200 response
DeleteBookRemove(c) ==
  /\ pc[c] = "del_book"
  /\ UNCHANGED <<users, nextId, clock, registered, added>>
  /\ books' = books \ BookById(doc[c].id)
  /\ Finish(c, Keyed(Reply("deleteBook", 200, MsgBookDeleted, "store", NoBody), IdKey(doc[c].id)))

-----------------------------------------------------------------------------
(* Time passes: Date.now() as read by save() and by jwt.sign *)

Tick ==
  /\ clock < MaxClock
  /\ clock' = clock + 1
  /\ UNCHANGED <<users, books, nextId, pc, doc, out, registered, added>>

-----------------------------------------------------------------------------
(* Specifications *)

Init ==
  /\ users = {}
  /\ books = {}
  /\ nextId = 1
  /\ clock = 0
  /\ pc = [c \in Clients |-> "idle"]
  /\ doc = [c \in Clients |-> NoDoc]
  /\ out = NoResp
  /\ registered = {}
  /\ added = <<>>

NextUsers ==
  \E c \in Clients :
    \/ \E body \in RegisterBodies : RegisterCheck(c, body)
    \/ RegisterSave(c)
    \/ \E body \in LoginBodies : Login(c, body)
    \/ ListUsers(c)
    \/ \E id \in IdParams : \E body \in UpdateBodies : UpdateFind(c, id, body)
    \/ UpdateCheck(c)
    \/ UpdateSave(c)
    \/ \E id \in IdParams : DeleteUserFind(c, id)
    \/ DeleteUserRemove(c)

NextBooks ==
  \E c \in Clients :
    \/ \E body \in BookBodies : AddBookCheck(c, body)
    \/ AddBookSave(c)
    \/ ListBooks(c)
    \/ \E id \in IdParams : DeleteBookFind(c, id)
    \/ DeleteBookRemove(c)

\* the create requests of both services alone
NextCreate ==
  \E c \in Clients :
    \/ \E body \in RegisterBodies : RegisterCheck(c, body)
    \/ RegisterSave(c)
    \/ \E body \in BookBodies : AddBookCheck(c, body)
    \/ AddBookSave(c)

\* the create and delete requests of both services alone
NextCreateDelete ==
  \/ NextCreate
  \/ \E c \in Clients :
       \/ \E id \in IdParams : DeleteUserFind(c, id)
       \/ DeleteUserRemove(c)
       \/ \E id \in IdParams : DeleteBookFind(c, id)
       \/ DeleteBookRemove(c)

Next == NextUsers \/ NextBooks \/ Tick

Spec == Init /\ [][Next]_vars
SpecUsers == Init /\ [][NextUsers \/ Tick]_vars
SpecBooks == Init /\ [][NextBooks \/ Tick]_vars
SpecCreate == Init /\ [][NextCreate \/ Tick]_vars
SpecCreateDelete == Init /\ [][NextCreateDelete \/ Tick]_vars

-----------------------------------------------------------------------------
(* Properties of the catalog routes *)

\* C1: in every reachable state no two stored books have the same ISBN,
\* whatever the interleaving of AddBook and DeleteBook requests.
C1_IsbnUnique ==
  \A b1 \in books : \A b2 \in books : b1.isbn = b2.isbn => b1 = b2

\* two AddBook requests passed findOne before either saved, and the store
\* turned the second save down
C1_Witness ==
  /\ out.op = "addBook"
  /\ out.via = "store"
  /\ out.status = 400
  /\ BookByIsbn(out.key.isbn) # {}

\* a body field counts as present when its key is there and, for a string,
\* when the string is not empty; a year is present whatever its number
C8_Present(body) ==
  /\ body.title # Absent /\ Val(body.title) # ""
  /\ body.author # Absent /\ Val(body.author) # ""
  /\ body.isbn # Absent /\ Val(body.isbn) # ""
  /\ body.publicationYear # Absent

\* C8: AddBook with a field absent answers 400 (validation) and AddBook of a
\* stored ISBN answers 400 (conflict), both leaving the books unchanged;
\* AddBook with the four fields present and an unused ISBN is not turned
\* down: it goes on to save, and the save answers 201 and adds exactly the
\* record with the four values.
C8_AddBookContract ==
  [][\A c \in Clients :
       /\ \A body \in BookBodies :
            AddBookCheck(c, body) =>
              /\ books' = books
              /\ ~C8_Present(body) =>
                   /\ out'.op = "addBook" /\ out'.status = 400
                   /\ out'.msg = MsgBookMissing
              /\ (C8_Present(body) /\ BookByIsbn(Val(body.isbn)) # {}) =>
                   /\ out'.op = "addBook" /\ out'.status = 400
                   /\ out'.msg = MsgIsbnExists
              /\ (C8_Present(body) /\ BookByIsbn(Val(body.isbn)) = {}) =>
                   /\ pc'[c] = "add_save"
                   /\ doc'[c].rec.title = Val(body.title)
                   /\ doc'[c].rec.author = Val(body.author)
                   /\ doc'[c].rec.isbn = Val(body.isbn)
                   /\ doc'[c].rec.publicationYear = Val(body.publicationYear)
       /\ AddBookSave(c) =>
            IF BookByIsbn(doc[c].rec.isbn) = {}
              THEN /\ out'.status = 201
                   /\ \E b \in books' :
                        /\ books' = books \cup {b}
                        /\ b \notin books
                        /\ b.title = doc[c].rec.title
                        /\ b.author = doc[c].rec.author
                        /\ b.isbn = doc[c].rec.isbn
                        /\ b.publicationYear = doc[c].rec.publicationYear
              ELSE /\ out'.status = 400
                   /\ out'.msg = MsgIsbnExists
                   /\ books' = books
  ]_vars

\* the place of the book id in the order in which the AddBook requests completed
C10_Completed(id) == CHOOSE i \in 1..Len(added) : added[i].id = id

-----------------------------------------------------------------------------
(* Properties of the account routes *)

\* C2: in every reachable state no two stored accounts have the same email,
\* whatever the interleaving of Register, UpdateAccount and DeleteAccount.
C2_EmailUnique ==
  \A u1 \in users : \A u2 \in users : u1.email = u2.email => u1 = u2

\* an UpdateAccount passed its check for an email, a Register of that email
\* was persisted, and the store turned the update's save down
C2_Witness ==
  /\ out.op = "update"
  /\ out.via = "store"
  /\ out.status = 500
  /\ Cardinality(users) = 2
  /\ \E r \in registered : r.email = out.key.email

\* C3: of the create requests that race for one email or one ISBN, all past
\* the existence check before any writes, exactly one is answered 201 and
\* every other is answered 400 with the message of the check, never 500.
C3_RaceOutcome ==
  /\ \A e \in GoodEmails : Cardinality({r \in registered : r.email = e}) <= 1
  /\ \A i \in Isbns : Cardinality({k \in 1..Len(added) : added[k].isbn = i}) <= 1
  /\ (out.op = "register" /\ out.key # NoKey) =>
       /\ out.status # 500
       /\ out.status = 201 \/ (out.status = 400 /\ out.msg = "An account with this email already exists")
       /\ out.via = "store" => Cardinality({r \in registered : r.email = out.key.email}) = 1
  /\ (out.op = "addBook" /\ out.via = "store") =>
       /\ out.status # 500
       /\ out.status = 201 \/ (out.status = 400 /\ out.msg = "A book with this ISBN already exists in the library")
       /\ Cardinality({k \in 1..Len(added) : added[k].isbn = out.key.isbn}) = 1
  /\ (out.op = "addBook" /\ out.via = "check" /\ out.msg # MsgBookMissing) =>
       (out.status = 400 /\ out.msg = "A book with this ISBN already exists in the library")

\* two Register requests raced for one email, both past the check: one was
\* persisted and the other was turned down by the store
C3_Witness ==
  /\ out.op = "register"
  /\ out.via = "store"
  /\ out.status = 400
  /\ \E r \in registered : r.email = out.key.email

\* C4: an UpdateAccount whose email is held by a different account fails
\* with 400 and leaves the accounts unchanged, at the check and at the save
\* alike; an UpdateAccount with the account's own email succeeds.
C4_UpdateConflict ==
  [][\A c \in Clients :
       /\ UpdateCheck(c) =>
            ((\E u \in users : u.id # doc[c].id /\ u.email = Val(doc[c].email)) =>
               /\ out'.status = 400
               /\ out'.msg = MsgEmailInUse
               /\ users' = users)
       /\ (UpdateSave(c) /\ doc[c].email # Absent /\ UserById(doc[c].id) # {}) =>
            /\ (\E u \in users : u.id # doc[c].id /\ u.email = Val(doc[c].email)) =>
                 /\ out'.status = 400
                 /\ users' = users
            /\ (\E u \in users : u.id = doc[c].id /\ u.email = Val(doc[c].email)) =>
                 /\ out'.status = 200
                 /\ \A u \in users' : u.id = doc[c].id => u.email = Val(doc[c].email)
  ]_vars

\* C5: in every state, Authenticate with an email no account has and
\* Authenticate with an account's email and a password that does not match
\* get the same response: status 400, the same message, no token.
C5_SameFailure ==
  \A b1 \in LoginBodies : \A b2 \in LoginBodies :
    ( /\ ~Falsy(b1.email, EmailEmpty) /\ ~Falsy(b1.password, PwEmpty)
      /\ ~Falsy(b2.email, EmailEmpty) /\ ~Falsy(b2.password, PwEmpty)
      /\ \A u \in users : u.email # Val(b1.email)
      /\ \E u \in users : /\ u.email = Val(b2.email)
                          /\ u.password # BcryptHash(Val(b2.password), u.password.salt) )
    => /\ LoginReply(b1) = LoginReply(b2)
       /\ LoginReply(b1).status = 400
       /\ LoginReply(b1).body = NoBody

\* an Authenticate with a stored email and a wrong password was answered,
\* while another email is unknown to the store
C5_Witness ==
  /\ out.op = "login"
  /\ out.status = 400
  /\ out.msg = "Invalid email or password"
  /\ out.key # NoKey
  /\ \E u \in users : u.email = out.key.email
  /\ \E e \in GoodEmails : \A u \in users : u.email # e

\* C6: for an account registered with (email, password), still stored under
\* that email, Authenticate(email, password) answers 200 with a token of
\* that account's id that expires one hour after it is issued, and with the
\* account's id, name and email; Authenticate answers 200 only for a stored
\* email with a password that matches the stored hash.
C6_LoginAfterRegister ==
  /\ \A r \in registered : \A u \in users :
       (u.id = r.id /\ u.email = r.email) =>
         LET rep == LoginReply([email |-> Some(r.email), password |-> Some(r.password)])
         IN /\ rep.status = 200
            /\ rep.body.token.sub = r.id
            /\ rep.body.token.iat = clock
            /\ rep.body.token.exp = clock + 60 * 60
            /\ rep.body.user = [id |-> u.id, name |-> u.name, email |-> u.email]
  /\ \A b \in LoginBodies :
       LoginReply(b).status = 200 =>
         /\ b.email # Absent /\ b.password # Absent
         /\ \E u \in users : /\ u.email = Val(b.email)
                             /\ u.password = BcryptHash(Val(b.password), u.password.salt)
  /\ (out.op = "login" /\ out.status = 200) =>
       /\ out.body.token.exp = out.body.token.iat + 60 * 60
       /\ out.body.token.sub = out.body.user.id
       /\ out.body.user.email = out.key.email

\* an account logged in after the clock moved on: the token is of that account
C6_Witness ==
  /\ out.op = "login"
  /\ out.status = 200
  /\ out.body.token.iat = 1
  /\ \E r \in registered : r.id = out.body.token.sub /\ r.email = out.key.email

\* local@domain.tld: three non-empty parts without whitespace or @
C7_Part(s) == Len(s) > 0 /\ \A k \in 1..Len(s) : s[k] \notin {" ", "\t", "\n", "@"}
C7_WellFormed(e) ==
  \E i \in 1..Len(e) : \E j \in 1..Len(e) :
    /\ i < j
    /\ C7_Part(SubSeq(e, 1, i - 1))
    /\ e[i] = "@"
    /\ C7_Part(SubSeq(e, i + 1, j - 1))
    /\ e[j] = "."
    /\ C7_Part(SubSeq(e, j + 1, Len(e)))

C7_Invalid(body) ==
  \/ body.name = Absent \/ Val(body.name) = ""
  \/ body.email = Absent \/ Val(body.email) = <<>>
  \/ body.password = Absent \/ Val(body.password) = <<>>
  \/ ~C7_WellFormed(Val(body.email))
  \/ Len(Val(body.password)) < 6

\* C7: Register answers 400 (validation) when a field is absent, the email
\* is malformed or the password has fewer than 6 characters, and 400
\* (conflict) when the body is valid and an account has that email, whatever
\* the name and password; in all these cases the accounts are unchanged.
C7_RegisterRejects ==
  [][\A c \in Clients :
       /\ \A body \in RegisterBodies :
            RegisterCheck(c, body) =>
              /\ users' = users
              /\ C7_Invalid(body) =>
                   /\ out'.op = "register" /\ out'.status = 400
                   /\ out'.msg \in {MsgRegMissing, MsgBadEmail, MsgShortPw}
                   /\ pc'[c] = "idle"
              /\ (~C7_Invalid(body) /\ \E u \in users : u.email = Val(body.email)) =>
                   /\ out'.op = "register" /\ out'.status = 400
                   /\ out'.msg = MsgEmailExists
                   /\ pc'[c] = "idle"
       /\ (RegisterSave(c) /\ \E u \in users : u.email = doc[c].rec.email) =>
            /\ out'.status = 400
            /\ out'.msg = MsgEmailExists
            /\ users' = users
  ]_vars

\* a Register with a short password for the email of a stored account was
\* turned down
C7_Witness ==
  /\ out.op = "register"
  /\ out.status = 400
  /\ out.msg = MsgShortPw
  /\ \E u \in users : u.email = EmailAnn

\* C9: DeleteBook and DeleteAccount answer 404 and change nothing for an id
\* that is malformed or not stored; for a stored id they answer 200 and
\* remove that record and no other; a second delete of the id answers 404.
C9_DeleteContract ==
  [][\A c \in Clients :
       /\ \A id \in IdParams :
            /\ DeleteBookFind(c, id) =>
                 /\ books' = books
                 /\ (~IsObjectId(id) \/ \A b \in books : b.id # id) =>
                      (out'.op = "deleteBook" /\ out'.status = 404)
                 /\ (\E k \in 1..Len(added) : added[k].id = id) /\ (\A b \in books : b.id # id) =>
                      out'.status = 404
            /\ DeleteUserFind(c, id) =>
                 /\ users' = users
                 /\ (~IsObjectId(id) \/ \A u \in users : u.id # id) =>
                      (out'.op = "deleteUser" /\ out'.status = 404)
       /\ (DeleteBookRemove(c) /\ \E b \in books : b.id = doc[c].id) =>
            /\ out'.op = "deleteBook" /\ out'.status = 200
            /\ \E b \in books : b.id = doc[c].id /\ books' = books \ {b} /\ users' = users
            /\ Cardinality(books') = Cardinality(books) - 1
       /\ (DeleteUserRemove(c) /\ \E u \in users : u.id = doc[c].id) =>
            /\ out'.op = "deleteUser" /\ out'.status = 200
            /\ \E u \in users : u.id = doc[c].id /\ users' = users \ {u} /\ books' = books
            /\ Cardinality(users') = Cardinality(users) - 1
  ]_vars

\* a book that was added and then deleted was asked to be deleted again,
\* while another record is still stored
C9_Witness ==
  /\ out.op = "deleteBook"
  /\ out.status = 404
  /\ out.msg = MsgBookGone
  /\ \E k \in 1..Len(added) : added[k].id = out.key.id
  /\ books \cup users # {}

-----------------------------------------------------------------------------
(* Properties of the password field *)

\* the account objects a response body carries
C11_Accounts(body) ==
  IF body.kind = "users" THEN body.users
  ELSE IF body.kind \in {"user", "login"} THEN {body.user}
  ELSE {}

\* C11: every stored account registered with a password holds
\* bcrypt.hash(password, salt) in its password field, the salted digest of
\* the password it was registered with and not that password; and the response of every Register, Authenticate,
\* ListAccounts, UpdateAccount and DeleteAccount step is a message alone or
\* carries account objects made of id, name and email only (and, for a
\* login, the token of the account id and its two times): no object has a
\* password field, and no email in it is the plaintext password of an
\* account.
C11_PasswordHidden ==
  /\ \A u \in users : \A r \in registered :
       r.id = u.id =>
         /\ u.password = BcryptHash(r.password, u.password.salt)
         /\ u.password.alg = "bcrypt"
         /\ u.password.salt \in Salts
  /\ out.body.kind \in {"none", "user", "login", "users"}
  /\ DOMAIN out.body \subseteq {"kind", "user", "users", "token"}
  /\ out.body.kind = "login" => DOMAIN out.body.token = {"sub", "iat", "exp"}
  /\ \A o \in C11_Accounts(out.body) :
       /\ DOMAIN o = {"id", "name", "email"}
       /\ \A r \in registered : o.email # r.password

\* ListAccounts answered with the stored accounts while an account
\* registered with a password is stored with its hash
C11_Witness ==
  /\ out.op = "listUsers"
  /\ out.status = 200
  /\ \E u \in users :
       /\ \E r \in registered : r.id = u.id /\ BcryptCompare(r.password, u.password)
       /\ \E o \in out.body.users : o.id = u.id /\ o.email = u.email

====
